---- MODULE Spec2Model ----
(***************************************************************************)
(* A model of CellProfiler's CalculateImageOverlap module                  *)
(* (cellprofiler/modules/calculateimageoverlap.py).                        *)
(*                                                                         *)
(* Images are NPix pixels stored in row-major order in rows of Width       *)
(* pixels.  A boolean image is the set of its True pixels, a label image   *)
(* is a function from pixels to labels.                                    *)
(*                                                                         *)
(* Floating point values are modelled as exact fractions <<n, d>> in       *)
(* lowest terms with d >= 0; d = 0 gives the three IEEE specials:          *)
(* <<0,0>> is NaN, <<1,0>> is +inf and <<-1,0>> is -inf.  A raised Python  *)
(* exception is the value Raised.  The measurements of an image cycle are  *)
(* a record of the seven features and a status: "none" before run(), "ok"  *)
(* after it, "raised" when run() ended in an exception.                    *)
(***************************************************************************)
EXTENDS Integers, Sequences, FiniteSets, TLC

\* ------------------------------------------------------------------ bounds
NPix == 3
Width == 3
MaxLabel == 1
MaxObjects == 2
MaxTriples == 3

Pixels == 0 .. (NPix - 1)
Masks == SUBSET Pixels
Labels == 0 .. MaxLabel
LabelImages == [Pixels -> Labels]

VARIABLES
    pc,                   \* "start" | "done": position of the caller of run()
    ground_truth_pixels,  \* ground_truth_image.pixel_data
    test_pixels,          \* test_image.pixel_data
    gt_mask,              \* ground_truth_image.mask
    has_mask,             \* test_image.has_mask
    test_mask,            \* test_image.mask
    confusion,            \* the four pixel sets and counts of measure_image
    measurements,         \* workspace.measurements: feature -> value
    gt_labels,            \* compute_rand_index: ground_truth_labels argument
    test_labels,          \* compute_rand_index: test_labels argument
    rand_mask,            \* compute_rand_index: mask argument
    rand_result,          \* compute_rand_index: returned tuple
    rand_swapped,         \* the same, ground truth and test exchanged
    gt_ijv,               \* compute_rand_index_ijv: gt_ijv argument
    test_ijv,             \* compute_rand_index_ijv: test_ijv argument
    ijv_mask,             \* compute_rand_index_ijv: mask argument
    ijv_result,           \* compute_rand_index_ijv: returned tuple
    ijv_swapped,          \* the same, ground truth and test exchanged
    ijv_filtered,         \* the same, rows outside the mask left out
    objects_GT,           \* objects_GT.ijv: the set of its rows
    objects_ID,           \* objects_ID.ijv: the set of its rows
    objects_mask,         \* measure_objects: GT_mask & ID_mask
    matching,             \* measure_objects: dom_ID, intersect_matrix, sums
    obj_or_img,           \* CalculateImageOverlap.obj_or_img.value
    test_img,             \* CalculateImageOverlap.test_img.value
    img_obj_found_in_GT,  \* CalculateImageOverlap.img_obj_found_in_GT.value
    recorded_names,       \* the names run() gave to add_image_measurement
    declared_columns,     \* the names get_measurement_columns() returned
    measurement_images,   \* a get_measurement_images() call and its result
    loaded,               \* the module's settings as read from the pipeline
    setting_values,       \* upgrade_settings: setting_values
    variable_revision_number, \* upgrade_settings: variable_revision_number
    from_matlab,          \* upgrade_settings: from_matlab
    upgrade_block,        \* upgrade_settings: the if statement to run next
    mappings,             \* CreateBatchFiles.mappings: <<local, remote>>
    remote_host_is_windows, \* CreateBatchFiles.remote_host_is_windows.value
    path,                 \* alter_path: the path argument
    altered_path          \* alter_path: the returned path

vars == <<pc, ground_truth_pixels, test_pixels, gt_mask, has_mask, test_mask,
          confusion, measurements, gt_labels, test_labels, rand_mask,
          rand_result, rand_swapped, gt_ijv, test_ijv, ijv_mask, ijv_result,
          ijv_swapped, ijv_filtered, objects_GT, objects_ID, objects_mask,
          matching, obj_or_img, test_img, img_obj_found_in_GT, recorded_names,
          declared_columns, measurement_images, loaded, setting_values,
          variable_revision_number, from_matlab, upgrade_block, mappings,
          remote_host_is_windows, path, altered_path>>

IjvVars == <<gt_ijv, test_ijv, ijv_mask, ijv_result, ijv_swapped,
             ijv_filtered>>

ObjVars == <<objects_GT, objects_ID, objects_mask, matching>>

NameVars == <<obj_or_img, test_img, img_obj_found_in_GT, recorded_names,
              declared_columns, measurement_images>>

UpgradeVars == <<loaded, setting_values, variable_revision_number,
                 from_matlab, upgrade_block>>

PathVars == <<remote_host_is_windows, path, altered_path>>

BatchVars == <<UpgradeVars, mappings, PathVars>>

\* the choices of obj_or_img
O_OBJ == "Segmented objects"
O_IMG == "Foreground/background segmentation"

\* no get_measurement_images() call yet
NoImages == [measurement |-> "", images |-> << >>]

\* the naming of the measurements is not looked at
NamesIdle ==
    /\ obj_or_img = O_IMG
    /\ test_img = << >>
    /\ img_obj_found_in_GT = << >>
    /\ recorded_names = << >>
    /\ declared_columns = << >>
    /\ measurement_images = NoImages

\* no settings of CreateBatchFiles are loaded
UpgradeIdle ==
    /\ loaded = << >>
    /\ setting_values = << >>
    /\ variable_revision_number = 0
    /\ from_matlab = FALSE
    /\ upgrade_block = 0

\* no path is altered
PathIdle ==
    /\ remote_host_is_windows = FALSE
    /\ path = << >>
    /\ altered_path = << >>

\* the module CreateBatchFiles is not in the pipeline
BatchIdle == UpgradeIdle /\ mappings = << >> /\ PathIdle

\* ------------------------------------------------------- float arithmetic
Abs(x) == IF x < 0 THEN -x ELSE x

RECURSIVE GCD(_, _)
GCD(a, b) == IF b = 0 THEN a ELSE GCD(b, a % b)

NaN == <<0, 0>>
\* not floats: the result of an operation that raised, and a value not yet set
Raised == <<0, -1>>
Unset == <<0, -2>>

Sign(x) == IF x > 0 THEN 1 ELSE IF x < 0 THEN -1 ELSE 0

\* the fraction n/d in lowest terms; d = 0 gives nan or a signed infinity
Frac(n, d) ==
    IF d = 0 THEN <<Sign(n), 0>>
    ELSE LET g == GCD(Abs(n), Abs(d))
             s == IF d < 0 THEN -1 ELSE 1
         IN  <<(s * n) \div g, (s * d) \div g>>

Float(n) == <<n, 1>>
IsNaN(x) == x = NaN
IsFinite(x) == x[2] > 0

FAdd(x, y) ==
    IF IsNaN(x) \/ IsNaN(y) THEN NaN
    ELSE IF x[2] = 0 /\ y[2] = 0 THEN (IF x[1] = y[1] THEN x ELSE NaN)
    ELSE IF x[2] = 0 THEN x
    ELSE IF y[2] = 0 THEN y
    ELSE Frac(x[1] * y[2] + y[1] * x[2], x[2] * y[2])

FNeg(x) == <<-x[1], x[2]>>
FSub(x, y) == FAdd(x, FNeg(y))

FMul(x, y) ==
    IF IsNaN(x) \/ IsNaN(y) THEN NaN
    ELSE IF x[2] = 0 \/ y[2] = 0 THEN <<Sign(x[1]) * Sign(y[1]), 0>>
    ELSE Frac(x[1] * y[1], x[2] * y[2])

\* numpy's float64 division: x/0 is nan or +-inf (a warning, not an error)
NpDiv(x, y) ==
    IF IsNaN(x) \/ IsNaN(y) THEN NaN
    ELSE IF x[2] = 0 /\ y[2] = 0 THEN NaN
    ELSE IF x[2] = 0 THEN <<x[1] * (IF y[1] < 0 THEN -1 ELSE 1), 0>>
    ELSE IF y[2] = 0 THEN Float(0)
    ELSE IF y[1] = 0 THEN <<Sign(x[1]), 0>>
    ELSE Frac(x[1] * y[2], x[2] * y[1])

\* Python's float division: x/0.0 raises ZeroDivisionError
PyDiv(x, y) ==
    IF x = Raised \/ y = Raised THEN Raised
    ELSE IF y = Float(0) THEN Raised
    ELSE NpDiv(x, y)

RECURSIVE SumF(_, _)
\* the sum of f[x] over x in S
SumF(f, S) ==
    IF S = {} THEN 0
    ELSE LET x == CHOOSE y \in S : TRUE
         IN  f[x] + SumF(f, S \ {x})

RECURSIVE Tabulate(_, _)
\* the function f restricted to S, with its values computed once
Tabulate(f, S) ==
    IF S = {} THEN << >>
    ELSE LET x == CHOOSE y \in S : TRUE
         IN  (x :> f[x]) @@ Tabulate(f, S \ {x})

\* np.sum of a boolean image
np_sum(img) == Cardinality(img)


\* ------------------------------------------------- scipy.ndimage.label
Row(p) == p \div Width
Col(p) == p % Width

\* neighbours under the structuring element np.ones((3, 3), bool)
Adjacent(p, q) ==
    /\ p # q
    /\ Abs(Row(p) - Row(q)) <= 1
    /\ Abs(Col(p) - Col(q)) <= 1

RECURSIVE Grow(_, _)
\* the connected component of img that contains the pixels S
Grow(img, S) ==
    LET T == S \cup {q \in img : \E p \in S : Adjacent(p, q)}
    IN  IF T = S THEN S ELSE Grow(img, T)

MinOf(S) == CHOOSE x \in S : \A y \in S : x <= y
MaxOf(S) == CHOOSE x \in S : \A y \in S : x >= y

\* label(img, np.ones((3, 3), bool)): components are numbered from 1 in
\* raster order of their first pixel, background is 0
label(img) ==
    LET first == Tabulate([p \in img |-> MinOf(Grow(img, {p}))], img)
        firsts == {first[p] : p \in img}
    IN  [labels |-> Tabulate([p \in Pixels |->
                        IF p \in img
                        THEN Cardinality({f \in firsts : f <= first[p]})
                        ELSE 0], Pixels),
         count |-> Cardinality(firsts)]

\* ------------------------------------------------- compute_rand_index
choose2(x) == (x * (x - 1)) \div 2

\* N_ij = coo_matrix((ones, (ground_truth_labels, test_labels))).toarray():
\* the number of pixels with label i in the ground truth and j in the test
contingency(ground_truth_flat, test_flat, mask) ==
    LET I == 0 .. MaxOf({ground_truth_flat[p] : p \in mask})
        J == 0 .. MaxOf({test_flat[p] : p \in mask})
    IN  Tabulate([ij \in I \X J |->
            Cardinality({p \in mask : /\ ground_truth_flat[p] = ij[1]
                                      /\ test_flat[p] = ij[2]})], I \X J)

\* np.sum(N_ij, 1) and np.sum(N_ij, 0)
row_sums(N_ij, I, J) ==
    Tabulate([i \in I |-> SumF([j \in J |-> N_ij[<<i, j>>]], J)], I)
col_sums(N_ij, I, J) ==
    Tabulate([j \in J |-> SumF([i \in I |-> N_ij[<<i, j>>]], I)], J)

\* mutant: the division by 2 is missing
rand_C_undivided(N_ij, N_i, I, J) ==
    Float(SumF([ij \in I \X J |-> (N_i[ij[1]] - N_ij[ij]) * N_ij[ij]],
               I \X J))

\* C = np.sum((N_i[:, np.newaxis] - N_ij) * N_ij) / 2
rand_C(N_ij, N_i, I, J) ==
    Frac(SumF([ij \in I \X J |-> (N_i[ij[1]] - N_ij[ij]) * N_ij[ij]],
              I \X J), 2)

\* mutant: D is computed from the row sums, as C is
rand_D_rows(N_ij, N_j, I, J) ==
    LET N_i == row_sums(N_ij, I, J)
    IN  Frac(SumF([ij \in I \X J |-> (N_i[ij[1]] - N_ij[ij]) * N_ij[ij]],
                  I \X J), 2)

\* D = np.sum((N_j[np.newaxis, :] - N_ij) * N_ij) / 2
rand_D(N_ij, N_j, I, J) ==
    Frac(SumF([ij \in I \X J |-> (N_j[ij[2]] - N_ij[ij]) * N_ij[ij]],
              I \X J), 2)

\* A = np.sum(choose2(N_ij))
rand_A(N_ij, I, J) == SumF([ij \in I \X J |-> choose2(N_ij[ij])], I \X J)

\* mutant: an empty selection scores 0.0
empty_rand_index_zero == <<Float(0), Float(0)>>

\* rand_index = adjusted_rand_index = np.nan
empty_rand_index == <<NaN, NaN>>

compute_rand_index(test_labels_arg, ground_truth_labels_arg, mask) ==
    LET n == Cardinality(mask)      \* len(test_labels) after [mask]
    IN  IF n > 0
        THEN
          LET I == 0 .. MaxOf({ground_truth_labels_arg[p] : p \in mask})
              J == 0 .. MaxOf({test_labels_arg[p] : p \in mask})
              N_ij == contingency(ground_truth_labels_arg, test_labels_arg,
                                  mask)
              A == rand_A(N_ij, I, J)
              N_i == row_sums(N_ij, I, J)
              N_j == col_sums(N_ij, I, J)
              C == rand_C(N_ij, N_i, I, J)
              D == rand_D(N_ij, N_j, I, J)
              total == choose2(n)
              B == FSub(FSub(FSub(Float(total), Float(A)), C), D)
              rand_index == NpDiv(FAdd(Float(A), B), Float(total))
              sum_i == SumF([i \in I |-> choose2(N_i[i])], I)
              sum_j == SumF([j \in J |-> choose2(N_j[j])], J)
              expected_index == Float(sum_i * sum_j)
              max_index == Frac((sum_i + sum_j) * total, 2)
              adjusted_rand_index ==
                  NpDiv(FSub(Float(A * total), expected_index),
                        FSub(max_index, expected_index))
          IN  <<rand_index, adjusted_rand_index>>
        ELSE empty_rand_index

\* ------------------------------------------------------- measure_image
NoConfusion == [false_positives |-> {}, false_negatives |-> {},
                true_positives |-> {}, true_negatives |-> {},
                false_positive_count |-> 0, false_negative_count |-> 0,
                true_positive_count |-> 0, true_negative_count |-> 0]

\* the validity mask: the ground truth's mask, and the test image's if any
image_mask(gm, hm, tm) == IF hm THEN gm \cap tm ELSE gm

\* mutant: the false positives are not cleared outside the mask
confusion_sets_unmasked(test, ground_truth, mask) ==
    [false_positives |-> test \ ground_truth,
     false_negatives |-> (ground_truth \ test) \cap mask,
     true_positives  |-> (test \cap ground_truth) \cap mask,
     true_negatives  |-> ((Pixels \ test) \cap (Pixels \ ground_truth)) \cap mask]

confusion_sets(test, ground_truth, mask) ==
    [false_positives |-> (test \ ground_truth) \cap mask,
     false_negatives |-> (ground_truth \ test) \cap mask,
     true_positives  |-> (test \cap ground_truth) \cap mask,
     true_negatives  |-> ((Pixels \ test) \cap (Pixels \ ground_truth)) \cap mask]

\* mutant: the division is not guarded
measure_precision_unguarded(true_positive_count, labeled_pixel_count) ==
    PyDiv(Float(true_positive_count), Float(labeled_pixel_count))

measure_precision(true_positive_count, labeled_pixel_count) ==
    IF labeled_pixel_count = 0 THEN Float(1)
    ELSE PyDiv(Float(true_positive_count), Float(labeled_pixel_count))

measure_recall(true_positive_count, true_count) ==
    IF true_count = 0 THEN Float(1)
    ELSE PyDiv(Float(true_positive_count), Float(true_count))

\* mutant: the factor 2.0 is missing
measure_f_factor_half(precision, recall) ==
    IF precision = Raised \/ recall = Raised THEN Raised
    ELSE IF FAdd(precision, recall) = Float(0) THEN Float(0)
    ELSE PyDiv(FMul(precision, recall), FAdd(precision, recall))

measure_f_factor(precision, recall) ==
    IF precision = Raised \/ recall = Raised THEN Raised
    ELSE IF FAdd(precision, recall) = Float(0) THEN Float(0)
    ELSE PyDiv(FMul(FMul(Float(2), precision), recall),
               FAdd(precision, recall))

measure_false_positive_rate(false_positive_count, negative_count) ==
    IF negative_count = 0 THEN Float(0)
    ELSE PyDiv(Float(false_positive_count), Float(negative_count))

\* mutant: the fallback of the recall (1.0) is used
measure_false_negative_rate_one(false_negative_count, true_count) ==
    IF true_count = 0 THEN Float(1)
    ELSE PyDiv(Float(false_negative_count), Float(true_count))

measure_false_negative_rate(false_negative_count, true_count) ==
    IF true_count = 0 THEN Float(0)
    ELSE PyDiv(Float(false_negative_count), Float(true_count))

\* mutant: the pixels are labelled without applying the mask
image_labels_unmasked(pixels, mask) == label(pixels).labels

\* the labels handed to compute_rand_index
image_labels(pixels, mask) == label(pixels \cap mask).labels

NoMeasurements ==
    [status |-> "none", Ffactor |-> Unset, Precision |-> Unset,
     Recall |-> Unset, FalsePosRate |-> Unset, FalseNegRate |-> Unset,
     RandIndex |-> Unset, AdjustedRandIndex |-> Unset]

RaisedMeasurements == [NoMeasurements EXCEPT !.status = "raised"]

measure_image(test, ground_truth, gm, hm, tm) ==
    LET mask == image_mask(gm, hm, tm)
        s == confusion_sets(test, ground_truth, mask)
        false_positive_count == np_sum(s.false_positives)
        true_positive_count  == np_sum(s.true_positives)
        false_negative_count == np_sum(s.false_negatives)
        true_negative_count  == np_sum(s.true_negatives)
        labeled_pixel_count == true_positive_count + false_positive_count
        true_count == true_positive_count + false_negative_count
        precision == measure_precision(true_positive_count, labeled_pixel_count)
        recall == measure_recall(true_positive_count, true_count)
        f_factor == measure_f_factor(precision, recall)
        negative_count == false_positive_count + true_negative_count
        false_positive_rate ==
            measure_false_positive_rate(false_positive_count, negative_count)
        false_negative_rate ==
            measure_false_negative_rate(false_negative_count, true_count)
        ground_truth_labels == image_labels(ground_truth, mask)
        test_labels_ == image_labels(test, mask)
        ri == compute_rand_index(test_labels_, ground_truth_labels, mask)
        raised == Raised \in {precision, recall, f_factor,
                              false_positive_rate, false_negative_rate}
    IN  [confusion |->
            [false_positives |-> s.false_positives,
             false_negatives |-> s.false_negatives,
             true_positives |-> s.true_positives,
             true_negatives |-> s.true_negatives,
             false_positive_count |-> false_positive_count,
             false_negative_count |-> false_negative_count,
             true_positive_count |-> true_positive_count,
             true_negative_count |-> true_negative_count],
         measurements |->
            IF raised THEN RaisedMeasurements
            ELSE [status |-> "ok",
                  Ffactor |-> f_factor,
                  Precision |-> precision,
                  Recall |-> recall,
                  FalsePosRate |-> false_positive_rate,
                  FalseNegRate |-> false_negative_rate,
                  RandIndex |-> ri[1],
                  AdjustedRandIndex |-> ri[2]]]

\* ----------------------------------------------- mask mode: run()
NoLabels == [p \in Pixels |-> 0]

RandIdle ==
    /\ gt_labels = NoLabels
    /\ test_labels = NoLabels
    /\ rand_mask = {}
    /\ rand_result = <<Unset, Unset>>
    /\ rand_swapped = <<Unset, Unset>>

IjvIdle ==
    /\ gt_ijv = << >>
    /\ test_ijv = << >>
    /\ ijv_mask = {}
    /\ ijv_result = <<Unset, Unset>>
    /\ ijv_swapped = <<Unset, Unset>>
    /\ ijv_filtered = <<Unset, Unset>>

NoMatching == [status |-> "none"]

ObjIdle ==
    /\ objects_GT = {}
    /\ objects_ID = {}
    /\ objects_mask = {}
    /\ matching = NoMatching

ImageIdle ==
    /\ ground_truth_pixels = {}
    /\ test_pixels = {}
    /\ gt_mask = Pixels
    /\ has_mask = FALSE
    /\ test_mask = Pixels
    /\ confusion = NoConfusion
    /\ measurements = NoMeasurements

\* an image set is loaded; an image without a mask has the all-True mask
Init ==
    /\ pc = "start"
    /\ NamesIdle
    /\ BatchIdle
    /\ ground_truth_pixels \in Masks
    /\ test_pixels \in Masks
    /\ gt_mask \in Masks
    /\ has_mask \in BOOLEAN
    /\ test_mask \in Masks
    /\ (~has_mask => test_mask = Pixels)
    /\ confusion = NoConfusion
    /\ measurements = NoMeasurements
    /\ RandIdle
    /\ IjvIdle
    /\ ObjIdle

\* run() with obj_or_img = O_IMG
run ==
    /\ pc = "start"
    /\ LET r == measure_image(test_pixels, ground_truth_pixels,
                              gt_mask, has_mask, test_mask)
       IN  /\ confusion' = r.confusion
           /\ measurements' = r.measurements
    /\ pc' = "done"
    /\ UNCHANGED <<ground_truth_pixels, test_pixels, gt_mask, has_mask,
                   test_mask, gt_labels, test_labels, rand_mask, rand_result,
                   rand_swapped, IjvVars, ObjVars>>
    /\ UNCHANGED <<NameVars, BatchVars>>

\* the next image cycle: the same images except for one pixel outside the
\* validity mask, in the test image (which = 0) or the ground truth (1),
\* and run() on them
run_masked_variant(p, which) ==
    /\ pc = "done"
    /\ p \notin image_mask(gt_mask, has_mask, test_mask)
    /\ LET flip(img) == IF p \in img THEN img \ {p} ELSE img \cup {p}
           t == IF which = 0 THEN flip(test_pixels) ELSE test_pixels
           g == IF which = 1 THEN flip(ground_truth_pixels)
                ELSE ground_truth_pixels
           r == measure_image(t, g, gt_mask, has_mask, test_mask)
       IN  /\ test_pixels' = t
           /\ ground_truth_pixels' = g
           /\ confusion' = r.confusion
           /\ measurements' = r.measurements
    /\ pc' = "variant"
    /\ UNCHANGED <<gt_mask, has_mask, test_mask,
                   gt_labels, test_labels, rand_mask, rand_result,
                   rand_swapped, IjvVars, ObjVars>>
    /\ UNCHANGED <<NameVars, BatchVars>>

Next ==
    \/ run
    \/ \E p \in Pixels, which \in {0, 1} : run_masked_variant(p, which)

Spec == Init /\ [][Next]_vars


\* ----------------------------------------------- mask mode: properties
Measured == pc \in {"done", "variant"}
valid == image_mask(gt_mask, has_mask, test_mask)

\* the confusion counts, counted from the inputs pixel by pixel
tp == Cardinality({p \in valid : p \in test_pixels /\ p \in ground_truth_pixels})
fp == Cardinality({p \in valid : p \in test_pixels /\ p \notin ground_truth_pixels})
fn == Cardinality({p \in valid : p \notin test_pixels /\ p \in ground_truth_pixels})
tn == Cardinality({p \in valid : p \notin test_pixels /\ p \notin ground_truth_pixels})

\* x = n/d for a float x and integers n, d with d > 0
IsRatio(x, n, d) == IsFinite(x) /\ x[1] * d = n * x[2]

\* C1: after measure_image the four pixel sets are pairwise disjoint, lie
\* inside the validity mask, and their counts add up to the number of valid
\* pixels.
C1_ConfusionPartition ==
    Measured =>
        LET c == confusion
            sets == <<c.true_positives, c.false_positives,
                      c.false_negatives, c.true_negatives>>
        IN  /\ \A i, j \in 1..4 : i # j => sets[i] \cap sets[j] = {}
            /\ \A i \in 1..4 : sets[i] \subseteq valid
            /\ c.true_positive_count = Cardinality(c.true_positives)
            /\ c.false_positive_count = Cardinality(c.false_positives)
            /\ c.false_negative_count = Cardinality(c.false_negatives)
            /\ c.true_negative_count = Cardinality(c.true_negatives)
            /\ c.true_positive_count + c.false_positive_count
                 + c.false_negative_count + c.true_negative_count
               = Cardinality(valid)

\* a measured image with a masked-out test foreground pixel that the ground
\* truth lacks, and valid true and false positives
C1_Witness ==
    /\ pc = "done"
    /\ confusion.true_positives # {}
    /\ confusion.false_positives # {}
    /\ \E p \in Pixels \ valid : p \in test_pixels \ ground_truth_pixels

\* C2: precision = tp/(tp+fp), or 1.0 when tp+fp = 0; recall = tp/(tp+fn),
\* or 1.0 when tp+fn = 0; measure_image raises on no input.
C2_PrecisionRecall ==
    Measured =>
        /\ measurements.status = "ok"
        /\ (tp + fp > 0 => IsRatio(measurements.Precision, tp, tp + fp))
        /\ (tp + fp = 0 => measurements.Precision = Float(1))
        /\ (tp + fn > 0 => IsRatio(measurements.Recall, tp, tp + fn))
        /\ (tp + fn = 0 => measurements.Recall = Float(1))

\* measured: no labelled pixel, but ground truth foreground (precision falls
\* back to 1.0 while the recall is a true ratio, 0)
C2_Witness ==
    /\ pc = "done"
    /\ tp + fp = 0
    /\ tp + fn > 0
    /\ measurements.status = "ok"
    /\ measurements.Precision = Float(1)
    /\ measurements.Recall = Float(0)

\* C3: f_factor = 2*precision*recall/(precision+recall) when
\* precision+recall > 0 and 0.0 otherwise; two all-background masks on a
\* fully valid grid give precision = recall = f_factor = 1.0.
C3_FFactor ==
    (Measured /\ measurements.status = "ok") =>
        LET P == measurements.Precision
            R == measurements.Recall
            F == measurements.Ffactor
            sum == FAdd(P, R)
        IN  /\ IsFinite(sum) /\ sum[1] >= 0
            /\ (sum[1] > 0 =>
                  /\ IsFinite(F)
                  /\ FMul(F, sum) = FMul(Float(2), FMul(P, R)))
            /\ (sum[1] = 0 => F = Float(0))
            /\ (test_pixels = {} /\ ground_truth_pixels = {} /\ valid = Pixels
                  => P = Float(1) /\ R = Float(1) /\ F = Float(1))

\* measured: both masks all background on a fully valid grid
C3_Witness ==
    /\ pc = "done"
    /\ test_pixels = {} /\ ground_truth_pixels = {} /\ valid = Pixels
    /\ measurements.status = "ok"
    /\ measurements.Ffactor = Float(1)

\* measured: precision + recall = 0 and the f_factor is the fallback 0.0
C3_WitnessZero ==
    /\ pc = "done"
    /\ measurements.status = "ok"
    /\ measurements.Precision = Float(0)
    /\ measurements.Recall = Float(0)
    /\ measurements.Ffactor = Float(0)

\* C4: false_positive_rate = fp/(fp+tn), or 0.0 when fp+tn = 0;
\* false_negative_rate = fn/(tp+fn), or 0.0 when tp+fn = 0.
C4_ErrorRates ==
    (Measured /\ measurements.status = "ok") =>
        /\ (fp + tn > 0 => IsRatio(measurements.FalsePosRate, fp, fp + tn))
        /\ (fp + tn = 0 => measurements.FalsePosRate = Float(0))
        /\ (tp + fn > 0 => IsRatio(measurements.FalseNegRate, fn, tp + fn))
        /\ (tp + fn = 0 => measurements.FalseNegRate = Float(0))

\* measured: no ground truth foreground among the valid pixels (fallback of
\* the false negative rate) and a false positive rate strictly inside (0, 1)
C4_Witness ==
    /\ pc = "done"
    /\ tp + fn = 0
    /\ fp > 0 /\ tn > 0
    /\ measurements.status = "ok"
    /\ measurements.FalseNegRate = Float(0)
    /\ measurements.FalsePosRate = Frac(fp, fp + tn)

IdenticalFullyValid ==
    /\ Measured
    /\ test_pixels = ground_truth_pixels
    /\ valid = Pixels

\* C5: identical masks on a fully valid grid give precision = recall =
\* f_factor = rand_index = adjusted_rand_index = 1.0 and both error rates 0.0.
C5_IdenticalMasks ==
    IdenticalFullyValid =>
        /\ measurements.status = "ok"
        /\ measurements.Precision = Float(1)
        /\ measurements.Recall = Float(1)
        /\ measurements.Ffactor = Float(1)
        /\ measurements.RandIndex = Float(1)
        /\ measurements.AdjustedRandIndex = Float(1)
        /\ measurements.FalsePosRate = Float(0)
        /\ measurements.FalseNegRate = Float(0)

\* C6: pixels outside the validity mask do not influence the results: a run
\* on images that differ from the previous run's only at an invalid pixel
\* yields the same counts and the same seven measurements.
C6_MaskedPixelsIgnored ==
    [][pc' = "variant" =>
          /\ measurements' = measurements
          /\ confusion' = confusion]_vars

\* a variant was measured: a masked-out pixel between two valid foreground
\* pixels of the test image, with a defined Rand index
C6_Witness ==
    /\ pc = "variant"
    /\ \E r \in test_pixels \ valid :
         \E p, q \in valid \cap test_pixels \cap ground_truth_pixels :
            ~Adjacent(p, q) /\ Adjacent(p, r) /\ Adjacent(r, q)
    /\ measurements.status = "ok"
    /\ measurements.RandIndex = Float(1)

InUnit(x) == IsFinite(x) /\ 0 <= x[1] /\ x[1] <= x[2]
InSignedUnit(x) == IsFinite(x) /\ -x[2] <= x[1] /\ x[1] <= x[2]

\* C11: with at least one valid pixel none of the seven measurements is NaN:
\* precision, recall, f_factor, both error rates and rand_index lie in
\* [0, 1] and adjusted_rand_index lies in [-1, 1].
C11_NoNaNWithValidPixels ==
    (Measured /\ valid # {}) =>
        /\ measurements.status = "ok"
        /\ InUnit(measurements.Precision)
        /\ InUnit(measurements.Recall)
        /\ InUnit(measurements.Ffactor)
        /\ InUnit(measurements.FalsePosRate)
        /\ InUnit(measurements.FalseNegRate)
        /\ InUnit(measurements.RandIndex)
        /\ InSignedUnit(measurements.AdjustedRandIndex)


\* ------------------------------------- compute_rand_index on label images
ImageInputs == <<ground_truth_pixels, test_pixels, gt_mask, has_mask,
                 test_mask, confusion, measurements>>

\* any two label images and any mask
InitRand ==
    /\ pc = "start"
    /\ NamesIdle
    /\ BatchIdle
    /\ ImageIdle
    /\ gt_labels \in LabelImages
    /\ test_labels \in LabelImages
    /\ rand_mask \in Masks
    /\ rand_result = <<Unset, Unset>>
    /\ rand_swapped = <<Unset, Unset>>
    /\ IjvIdle
    /\ ObjIdle

\* compute_rand_index(test_labels, ground_truth_labels, mask)
call_compute_rand_index ==
    /\ pc = "start"
    /\ rand_result' = compute_rand_index(test_labels, gt_labels, rand_mask)
    /\ pc' = "done"
    /\ UNCHANGED <<ImageInputs, gt_labels, test_labels, rand_mask,
                   rand_swapped, IjvVars, ObjVars>>
    /\ UNCHANGED <<NameVars, BatchVars>>

\* compute_rand_index(ground_truth_labels, test_labels, mask)
call_compute_rand_index_swapped ==
    /\ pc = "done"
    /\ rand_swapped' = compute_rand_index(gt_labels, test_labels, rand_mask)
    /\ pc' = "swapped"
    /\ UNCHANGED <<ImageInputs, gt_labels, test_labels, rand_mask,
                   rand_result, IjvVars, ObjVars>>
    /\ UNCHANGED <<NameVars, BatchVars>>

NextRand == call_compute_rand_index \/ call_compute_rand_index_swapped

SpecRand == InitRand /\ [][NextRand]_vars

\* unordered pairs of distinct valid pixels, and those on which the two
\* labelings agree: together in both or apart in both
PixelPairs == {pq \in rand_mask \X rand_mask : pq[1] < pq[2]}
AgreeingPairs ==
    {pq \in PixelPairs :
        (gt_labels[pq[1]] = gt_labels[pq[2]])
            <=> (test_labels[pq[1]] = test_labels[pq[2]])}

\* C7: with at least two valid pixels, rand_index is the fraction of the
\* unordered pairs of distinct valid pixels on which the labelings agree,
\* label 0 being a label like any other.
C7_RandIndexIsPairFraction ==
    (pc # "start" /\ Cardinality(rand_mask) >= 2) =>
        IsRatio(rand_result[1], Cardinality(AgreeingPairs),
                Cardinality(PixelPairs))

\* computed: some pairs agree and some do not, and a background pixel and
\* an object pixel of the ground truth are together in the test labeling
C7_Witness ==
    /\ pc = "done"
    /\ AgreeingPairs # {}
    /\ AgreeingPairs # PixelPairs
    /\ \E pq \in PixelPairs :
          /\ gt_labels[pq[1]] = 0 /\ gt_labels[pq[2]] # 0
          /\ test_labels[pq[1]] = test_labels[pq[2]]

\* C8: exchanging the ground truth and the test labels leaves rand_index
\* and adjusted_rand_index unchanged, NaN matching NaN.
C8_RandIndexSymmetric ==
    pc = "swapped" => rand_swapped = rand_result

\* both calls made on labelings where the pairs together only in the ground
\* truth outnumber those together only in the test
C8_Witness ==
    /\ pc = "swapped"
    /\ Cardinality({pq \in PixelPairs :
            /\ gt_labels[pq[1]] = gt_labels[pq[2]]
            /\ test_labels[pq[1]] # test_labels[pq[2]]})
       > Cardinality({pq \in PixelPairs :
            /\ gt_labels[pq[1]] # gt_labels[pq[2]]
            /\ test_labels[pq[1]] = test_labels[pq[2]]})
    /\ IsFinite(rand_result[2])

\* C10: when the mask selects no pixel compute_rand_index returns NaN for
\* both indices.
C10_EmptyMaskNaN ==
    (pc # "start" /\ rand_mask = {}) => rand_result = <<NaN, NaN>>

\* computed on an empty mask over labelled images
C10_Witness ==
    /\ pc = "done"
    /\ rand_mask = {}
    /\ \E p \in Pixels : gt_labels[p] # 0 /\ test_labels[p] # gt_labels[p]
    /\ rand_result = <<NaN, NaN>>


\* --------------------------------------------- compute_rand_index_ijv
\* A sparse labeling (ijv) is an array of rows (i, j, label); a row is
\* modelled as <<p, label>> with (i, j) = (Row(p), Col(p)).  The code sorts
\* the rows before any step that depends on their order, so a listing is
\* kept in sorted order; equal rows (a point labelled twice with the same
\* label) may repeat.
IjvRows == Pixels \X (1 .. MaxObjects)

RowKey(r) == r[1] * (MaxObjects + 1) + r[2]

\* the listings of n rows
Listings(n) ==
    {s \in [1 .. n -> IjvRows] :
        \A k \in 1 .. (n - 1) : RowKey(s[k]) <= RowKey(s[k + 1])}

\* mutant: no background rows are added
add_background_none(ijv, mask) ==
    {ijv[k] : k \in DOMAIN ijv}

\* the listing with the background added: label 0 at every pixel of the
\* mask that has no row in the listing
add_background(ijv, mask) ==
    LET bkgd == mask \ {ijv[k][1] : k \in DOMAIN ijv}
    IN  {ijv[k] : k \in DOMAIN ijv} \cup {<<p, 0>> : p \in bkgd}

\* u: the rows <<p, label, source>> of both listings, source 0 for the ground
\* truth and 1 for the test, sorted and with duplicate rows removed
unified(gt_rows, test_rows) ==
    {<<r[1], r[2], 0>> : r \in gt_rows} \cup {<<r[1], r[2], 1>> : r \in test_rows}

\* count_test = np.bincount(indexes.rev_idx, u[:, 3]) at one coordinate
count_test_at(u, p) == Cardinality({r \in u : r[1] = p /\ r[3] = 1})

\* mutant: the test rows are not subtracted
count_gt_at_all(u, p) == Cardinality({r \in u : r[1] = p})

\* count_gt = first_coord_counts - count_test at one coordinate
count_gt_at(u, p) ==
    Cardinality({r \in u : r[1] = p}) - count_test_at(u, p)

RECURSIVE SetToSeq(_)
SetToSeq(S) ==
    IF S = {} THEN << >>
    ELSE LET x == CHOOSE y \in S : TRUE
         IN  <<x>> \o SetToSeq(S \ {x})

\* labels: one entry (count, lm[idx, :j], lm[idx, j:]) for each group of
\* coordinates that carry the same labels, over the coordinates with
\* 1..max labels in the test and 1..max labels in the ground truth.  The
\* first j labels of a coordinate are its ground truth labels.
label_groups(u) ==
    LET coords == {r[1] : r \in u}
        matched == {p \in coords : count_test_at(u, p) >= 1
                                   /\ count_gt_at(u, p) >= 1}
        first_labels(p) == {r[2] : r \in {x \in u : x[1] = p /\ x[3] = 0}}
        rest_labels(p) == {r[2] : r \in {x \in u : x[1] = p /\ x[3] = 1}}
        sig == Tabulate([p \in matched |->
                           <<first_labels(p), rest_labels(p)>>], matched)
    IN  SetToSeq({[count |-> Cardinality({q \in matched : sig[q] = sig[p]}),
                   t |-> sig[p][1],
                   g |-> sig[p][2]] : p \in matched})

\* reduce(max, lens, 0)
reduce_max(lens) == MaxOf(lens \cup {0})

\* tbl[nhits_test, nhits_gt]: the number of coordinate pairs whose "t"
\* labels share nhits_test labels and whose "g" labels share nhits_gt
omega_table(labels, max_t_labels, max_g_labels) ==
    LET pairs == {ij \in (DOMAIN labels) \X (DOMAIN labels) : ij[1] <= ij[2]}
        N(ij) == IF ij[1] = ij[2]
                 THEN choose2(labels[ij[1]].count)
                 ELSE labels[ij[1]].count * labels[ij[2]].count
        nhits_test(ij) == Cardinality(labels[ij[1]].t \cap labels[ij[2]].t)
        nhits_gt(ij) == Cardinality(labels[ij[1]].g \cap labels[ij[2]].g)
    IN  Tabulate([ab \in (0 .. max_t_labels) \X (0 .. max_g_labels) |->
            LET hit == {ij \in pairs : /\ nhits_test(ij) = ab[1]
                                       /\ nhits_gt(ij) = ab[2]}
            IN  SumF([ij \in hit |-> N(ij)], hit)],
            (0 .. max_t_labels) \X (0 .. max_g_labels))

compute_rand_index_ijv(gt_ijv_arg, test_ijv_arg, mask) ==
    LET u == unified(add_background(gt_ijv_arg, mask),
                     add_background(test_ijv_arg, mask))
    IN  IF u = {}
        THEN <<Raised, Raised>>     \* u[first, :] on an array without rows
        ELSE
          LET labels == label_groups(u)
              max_t_labels ==
                  reduce_max({Cardinality(labels[k].t) : k \in DOMAIN labels})
              max_g_labels ==
                  reduce_max({Cardinality(labels[k].g) : k \in DOMAIN labels})
              tbl == omega_table(labels, max_t_labels, max_g_labels)
              cells == (0 .. max_t_labels) \X (0 .. max_g_labels)
              N == SumF(tbl, cells)
              min_JK == (IF max_t_labels < max_g_labels
                         THEN max_t_labels ELSE max_g_labels) + 1
              K == 0 .. (min_JK - 1)
              rand_index ==
                  NpDiv(Float(SumF([k \in K |-> tbl[<<k, k>>]], K)), Float(N))
              sum0 == [k \in K |-> SumF([a \in K |-> tbl[<<a, k>>]], K)]
              sum1 == [k \in K |-> SumF([b \in K |-> tbl[<<k, b>>]], K)]
              e_omega ==
                  NpDiv(Float(SumF([k \in K |-> sum0[k] * sum1[k]], K)),
                        Float(N * N))
              adjusted_rand_index ==
                  NpDiv(FSub(rand_index, e_omega), FSub(Float(1), e_omega))
          IN  <<rand_index, adjusted_rand_index>>

\* any two listings of at most MaxTriples rows in all, and any mask
InitIjv ==
    /\ pc = "start"
    /\ NamesIdle
    /\ BatchIdle
    /\ ImageIdle
    /\ RandIdle
    /\ ObjIdle
    /\ \E n \in 0 .. MaxTriples, m \in 0 .. MaxTriples :
          /\ n + m <= MaxTriples
          /\ gt_ijv \in Listings(n)
          /\ test_ijv \in Listings(m)
    /\ ijv_mask \in Masks
    /\ ijv_result = <<Unset, Unset>>
    /\ ijv_swapped = <<Unset, Unset>>
    /\ ijv_filtered = <<Unset, Unset>>

RandVars == <<gt_labels, test_labels, rand_mask, rand_result, rand_swapped>>

\* compute_rand_index_ijv(objects_GT.ijv, objects_ID.ijv, mask)
call_compute_rand_index_ijv ==
    /\ pc = "start"
    /\ ijv_result' = compute_rand_index_ijv(gt_ijv, test_ijv, ijv_mask)
    /\ pc' = "done"
    /\ UNCHANGED <<ImageInputs, RandVars, gt_ijv, test_ijv, ijv_mask,
                   ijv_swapped, ijv_filtered, ObjVars>>
    /\ UNCHANGED <<NameVars, BatchVars>>

\* compute_rand_index_ijv(objects_ID.ijv, objects_GT.ijv, mask)
call_compute_rand_index_ijv_swapped ==
    /\ pc = "done"
    /\ ijv_swapped' = compute_rand_index_ijv(test_ijv, gt_ijv, ijv_mask)
    /\ pc' = "swapped"
    /\ UNCHANGED <<ImageInputs, RandVars, gt_ijv, test_ijv, ijv_mask,
                   ijv_result, ijv_filtered, ObjVars>>
    /\ UNCHANGED <<NameVars, BatchVars>>

\* gt_labels = np.zeros(mask.shape); gt_labels[iGT, jGT] = lGT: where a
\* coordinate is listed more than once the last row is the one that stays
dense_labels(ijv) ==
    [p \in Pixels |->
        LET rows == {k \in DOMAIN ijv : ijv[k][1] = p}
        IN  IF rows = {} THEN 0 ELSE ijv[MaxOf(rows)][2]]

\* compute_rand_index(test_labels, gt_labels, mask) on the label images of
\* the two listings
call_compute_rand_index_dense ==
    /\ pc = "done"
    /\ gt_labels' = dense_labels(gt_ijv)
    /\ test_labels' = dense_labels(test_ijv)
    /\ rand_mask' = ijv_mask
    /\ rand_result' = compute_rand_index(dense_labels(test_ijv),
                                         dense_labels(gt_ijv), ijv_mask)
    /\ pc' = "dense"
    /\ UNCHANGED <<ImageInputs, rand_swapped, IjvVars, ObjVars>>
    /\ UNCHANGED <<NameVars, BatchVars>>

\* the rows of a listing at the coordinates the mask selects
rows_inside(ijv, mask) ==
    LET keep(r) == r[1] \in mask
    IN  SelectSeq(ijv, keep)

\* compute_rand_index_ijv on the listings without their rows outside the mask
call_compute_rand_index_ijv_inside ==
    /\ pc = "done"
    /\ ijv_filtered' = compute_rand_index_ijv(rows_inside(gt_ijv, ijv_mask),
                                              rows_inside(test_ijv, ijv_mask),
                                              ijv_mask)
    /\ pc' = "inside"
    /\ UNCHANGED <<ImageInputs, RandVars, gt_ijv, test_ijv, ijv_mask,
                   ijv_result, ijv_swapped, ObjVars>>
    /\ UNCHANGED <<NameVars, BatchVars>>

NextIjv ==
    \/ call_compute_rand_index_ijv
    \/ call_compute_rand_index_ijv_swapped
    \/ call_compute_rand_index_dense
    \/ call_compute_rand_index_ijv_inside

SpecIjv == InitIjv /\ [][NextIjv]_vars

\* C9: exchanging the two listings leaves the result of
\* compute_rand_index_ijv unchanged: the same rand_index and the same
\* adjusted_rand_index (NaN matching NaN), or an exception in both calls.
C9_RandIndexIjvSymmetric ==
    pc = "swapped" => ijv_swapped = ijv_result

\* both calls made where the ground truth has two objects overlapping at a
\* valid pixel, the test has other labels, and the Rand index is a number
\* strictly between 0 and 1
C9_Witness ==
    /\ pc = "swapped"
    /\ \E p \in ijv_mask :
          /\ Cardinality({k \in DOMAIN gt_ijv : gt_ijv[k][1] = p}) = 2
          /\ gt_ijv[1] # gt_ijv[2]
    /\ Len(test_ijv) = 1
    /\ IsFinite(ijv_result[1])
    /\ ijv_result[1][1] > 0
    /\ ijv_result[1][1] < ijv_result[1][2]

\* every coordinate of the listing carries one label only
SingleLabelled(ijv) ==
    \A k, l \in DOMAIN ijv : ijv[k][1] = ijv[l][1] => ijv[k][2] = ijv[l][2]

AllInside(ijv, mask) == \A k \in DOMAIN ijv : ijv[k][1] \in mask

NonOverlappingInside ==
    /\ SingleLabelled(gt_ijv) /\ AllInside(gt_ijv, ijv_mask)
    /\ SingleLabelled(test_ijv) /\ AllInside(test_ijv, ijv_mask)

\* C12: for two listings of non-overlapping objects inside the mask,
\* compute_rand_index_ijv returns the rand_index and adjusted_rand_index
\* that compute_rand_index returns on the equivalent label images.
C12_SparseEqualsDense ==
    (pc = "dense" /\ NonOverlappingInside) => ijv_result = rand_result

\* the two implementations agree on non-overlapping objects inside the
\* mask whenever there is a row or a valid coordinate at all
SparseEqualsDenseWithRows ==
    (pc = "dense" /\ NonOverlappingInside
        /\ (gt_ijv # << >> \/ test_ijv # << >> \/ ijv_mask # {}))
    => ijv_result = rand_result

\* both computed on different objects with a proper adjusted index
SparseEqualsDenseReached ==
    /\ pc = "dense" /\ NonOverlappingInside
    /\ gt_ijv # << >> /\ test_ijv # << >> /\ gt_ijv # test_ijv
    /\ IsFinite(rand_result[2]) /\ rand_result[2][1] # 0
    /\ ijv_result = rand_result

\* C13: compute_rand_index_ijv returns NaN for both indices, and does not
\* raise, when there is no pair of coordinates: with exactly one valid
\* coordinate (the listings inside the mask), and with no valid coordinate
\* and two empty listings.
C13_NoPairsNaN ==
    (/\ pc # "start"
     /\ \/ /\ Cardinality(ijv_mask) = 1
           /\ AllInside(gt_ijv, ijv_mask) /\ AllInside(test_ijv, ijv_mask)
        \/ ijv_mask = {} /\ gt_ijv = << >> /\ test_ijv = << >>)
    => ijv_result = <<NaN, NaN>>

\* C14: leaving out of both listings the rows at coordinates outside the
\* mask does not change the rand_index or the adjusted_rand_index.
C14_OutsideRowsExcluded ==
    pc = "inside" => ijv_filtered = ijv_result


\* ------------------------------------------ object mode: measure_objects
\* The two object sets are sparse labelings; measure_objects reads them as
\* the largest label and, label by label, the set of coordinates of the
\* rows with that label, so a labeling is modelled as the set of its rows
\* <<p, label>>.  Object labels start at 1.
NObjPix == 2
MaxGTLabel == 2
MaxIDLabel == 3
MaxRows == 5

ObjPixels == 0 .. (NObjPix - 1)
GTRows == ObjPixels \X (1 .. MaxGTLabel)
IDRows == ObjPixels \X (1 .. MaxIDLabel)
\* the images have no mask (all True), or one that leaves out pixel 0
ObjMasks == {ObjPixels, ObjPixels \ {0}}

\* set(zip(i[l == label], j[l == label]))
object_pixels(rows, lbl) == {r[1] : r \in {x \in rows : x[2] = lbl}}

\* a[d] for an index that may be negative
py_index(d, n) == IF d < 0 THEN d + n ELSE d

\* intersect_matrix[jj, ii] = len(GT_set & ID_set) for ii in range(0, GT_obj)
\* and jj in range(0, ID_obj), GT_set being the rows with lGT == ii and
\* ID_set those with lID == jj
overlap_matrix(gt, id, GT_obj, ID_obj) ==
    LET cells == (0 .. (ID_obj - 1)) \X (0 .. (GT_obj - 1))
    IN  Tabulate([c \in cells |->
                    Cardinality(object_pixels(gt, c[2])
                                \cap object_pixels(id, c[1]))], cells)

\* FN_area[jj, ii] = len(GT_set) - area_overlap
fn_area_matrix(gt, M, GT_obj, ID_obj) ==
    LET cells == (0 .. (ID_obj - 1)) \X (0 .. (GT_obj - 1))
    IN  Tabulate([c \in cells |->
                    Cardinality(object_pixels(gt, c[2])) - M[c]], cells)

\* for i in intersect_matrix: -1 if max(i) == 0 else np.where(i == max(i))[0][0]
dominating(M, i, GT_obj) ==
    LET cols == 0 .. (GT_obj - 1)
        top == MaxOf({M[<<i, c>>] : c \in cols})
    IN  IF top = 0 THEN -1
        ELSE MinOf({c \in cols : M[<<i, c>>] = top})

\* mutant: no entry of intersect_matrix is cleared
resolve_collisions_none(M, dom_ID, GT_obj, ID_obj) == M

\* for each column i that is the dom_ID of more than one row: final_id is
\* the first row holding the column's maximum, and the column is set to 0
\* in every other row whose dom_ID is i
resolve_collisions(M, dom_ID, GT_obj, ID_obj) ==
    LET rows == 0 .. (ID_obj - 1)
        cols == 0 .. (GT_obj - 1)
        all_id(i) == {x \in rows : dom_ID[x] = i}
        final_id(i) ==
            LET top == MaxOf({M[<<x, i>>] : x \in rows})
            IN  MinOf({x \in rows : M[<<x, i>>] = top})
    IN  Tabulate([c \in rows \X cols |->
                    IF /\ Cardinality(all_id(c[2])) > 1
                       /\ c[1] \in all_id(c[2])
                       /\ c[1] # final_id(c[2])
                    THEN 0 ELSE M[c]], rows \X cols)

\* np.sum(intersect_matrix[i][0:d]) + np.sum(intersect_matrix[i][(d+1)::])
fp_of_row(M, i, d, GT_obj) ==
    LET head == 0 .. (py_index(d, GT_obj) - 1)
        tail == (d + 1) .. (GT_obj - 1)
    IN  SumF([c \in head |-> M[<<i, c>>]], head)
            + SumF([c \in tail |-> M[<<i, c>>]], tail)

\* TP += [tp] twice for every i in range(0, len(dom_ID)), then np.sum(TP)
sum_TP(M, dom_ID, GT_obj, ID_obj) ==
    LET rows == 0 .. (ID_obj - 1)
    IN  SumF([i \in rows |-> 2 * M[<<i, py_index(dom_ID[i], GT_obj)>>]], rows)

\* the overlap areas, the dominating index of every row of
\* intersect_matrix and the matrix after the collisions are resolved
match_objects(gt, id, GT_obj, ID_obj) ==
    LET rows == 0 .. (ID_obj - 1)
        cols == 0 .. (GT_obj - 1)
        overlaps == overlap_matrix(gt, id, GT_obj, ID_obj)
        dom_ID == Tabulate([i \in rows |-> dominating(overlaps, i, GT_obj)],
                           rows)
    IN  [ID_obj |-> ID_obj,
         GT_obj |-> GT_obj,
         FN_area |-> fn_area_matrix(gt, overlaps, GT_obj, ID_obj),
         GT_tot_area |->
            SumF([c \in cols |-> Cardinality(object_pixels(gt, c))], cols),
         all_intersecting_area |-> SumF(overlaps, rows \X cols),
         dom_ID |-> dom_ID,
         intersect_matrix |->
            resolve_collisions(overlaps, dom_ID, GT_obj, ID_obj)]

\* the sums TP, TN, FN and FP over the positions of dom_ID
object_sums(m, total_pixels) ==
    LET rows == 0 .. (m.ID_obj - 1)
        at(i) == <<i, py_index(m.dom_ID[i], m.GT_obj)>>
    IN  [TP |-> sum_TP(m.intersect_matrix, m.dom_ID, m.GT_obj, m.ID_obj),
         TN |-> SumF([i \in rows |->
                        total_pixels - m.intersect_matrix[at(i)]], rows),
         FN |-> SumF([i \in rows |-> m.FN_area[at(i)]], rows),
         FP |-> SumF([i \in rows |->
                        fp_of_row(m.intersect_matrix, i, m.dom_ID[i],
                                  m.GT_obj)], rows)]

\* accuracy, recall, precision, F_factor and the two error rates: numpy
\* divisions, which do not raise
object_ratios(TP, TN, FN, FP, GT_tot_area, all_intersecting_area) ==
    LET recall == NpDiv(Float(TP), Float(GT_tot_area))
        precision == NpDiv(Float(TP), Float(TP + FP))
    IN  [accuracy |-> NpDiv(Float(TP), Float(all_intersecting_area)),
         recall |-> recall,
         precision |-> precision,
         F_factor |-> NpDiv(FMul(Float(2), FMul(precision, recall)),
                            FAdd(precision, recall)),
         false_positive_rate |-> NpDiv(Float(FP), Float(FP + TN)),
         false_negative_rate |-> NpDiv(Float(FN), Float(FN + TP))]

RaisedMatching == [status |-> "raised"]

\* workspace.display_data of measure_objects (workspace.frame is not None).
\* GT_pixels[iGT, jGT] = 1 marks every ground truth row; ID_pixels is marked
\* label by label for i in range(0, ID_obj).  The four grids TP_pixels,
\* FN_pixels, FP_pixels and TN_pixels are then stored in display_data.
object_display(gt, id, ID_obj) ==
    LET GT_pixels == {r[1] : r \in gt}
        ID_pixels == UNION {object_pixels(id, i) : i \in 0 .. (ID_obj - 1)}
        TP_pixels == GT_pixels \cap ID_pixels
        FN_pixels == GT_pixels \ ID_pixels
        FP_pixels == ID_pixels \ GT_pixels
        TN_pixels == ObjPixels \ (GT_pixels \cup ID_pixels)
    IN  [true_positives |-> TP_pixels,
         true_negatives |-> FN_pixels,
         false_positives |-> FP_pixels,
         false_negatives |-> TN_pixels]

\* what measure_objects leaves behind: the matching and the seven
\* measurements
object_measurements(m, s, q, ri, display_data) ==
    [matching |->
        [status |-> "ok", ID_obj |-> m.ID_obj, GT_obj |-> m.GT_obj,
         dom_ID |-> m.dom_ID, intersect_matrix |-> m.intersect_matrix,
         FN_area |-> m.FN_area,
         TP |-> s.TP, TN |-> s.TN, FN |-> s.FN, FP |-> s.FP,
         GT_tot_area |-> m.GT_tot_area, accuracy |-> q.accuracy,
         display_data |-> display_data],
     measurements |->
        IF Raised \in {ri[1], ri[2]} THEN RaisedMeasurements
        ELSE [status |-> "ok",
              Ffactor |-> q.F_factor,
              Precision |-> q.precision,
              Recall |-> q.recall,
              FalsePosRate |-> q.false_positive_rate,
              FalseNegRate |-> q.false_negative_rate,
              RandIndex |-> ri[1],
              AdjustedRandIndex |-> ri[2]]]

\* measure_objects on the two labelings, the mask and an image of
\* total_pixels pixels; max() of an empty label column raises ValueError
measure_objects(gt, id, mask, total_pixels) ==
    IF gt = {} \/ id = {}
    THEN [matching |-> RaisedMatching, measurements |-> RaisedMeasurements]
    ELSE
      LET m == match_objects(gt, id, MaxOf({r[2] : r \in gt}),
                             MaxOf({r[2] : r \in id}))
          s == object_sums(m, total_pixels)
      IN  object_measurements(
              m, s,
              object_ratios(s.TP, s.TN, s.FN, s.FP, m.GT_tot_area,
                            m.all_intersecting_area),
              compute_rand_index_ijv(SetToSeq(gt), SetToSeq(id), mask),
              object_display(gt, id, MaxOf({r[2] : r \in id})))

\* two object sets of at most MaxRows rows in all, and the masks of the
\* two images
InitObj ==
    /\ pc = "start"
    /\ NamesIdle
    /\ BatchIdle
    /\ ImageIdle
    /\ RandIdle
    /\ IjvIdle
    /\ objects_GT \in SUBSET GTRows
    /\ objects_ID \in SUBSET IDRows
    /\ Cardinality(objects_GT) + Cardinality(objects_ID) <= MaxRows
    /\ objects_mask \in ObjMasks
    /\ matching = NoMatching

\* run() with obj_or_img = O_OBJ
run_objects ==
    /\ pc = "start"
    /\ LET r == measure_objects(objects_GT, objects_ID, objects_mask, NObjPix)
       IN  /\ matching' = r.matching
           /\ measurements' = r.measurements
    /\ pc' = "done"
    /\ UNCHANGED <<ground_truth_pixels, test_pixels, gt_mask, has_mask,
                   test_mask, confusion, RandVars, IjvVars,
                   objects_GT, objects_ID, objects_mask>>
    /\ UNCHANGED <<NameVars, BatchVars>>

NextObj == run_objects

SpecObj == InitObj /\ [][NextObj]_vars

ObjectsMeasured == pc = "done" /\ matching.status = "ok"

\* the objects of the two labelings and their overlaps, from the inputs
GTObjects == {r[2] : r \in objects_GT}
IDObjects == {r[2] : r \in objects_ID}
overlap(g, t) ==
    Cardinality(object_pixels(objects_GT, g) \cap object_pixels(objects_ID, t))
Overlapped(g) == \E t \in IDObjects : overlap(g, t) > 0
\* the test object of maximum overlap with g, the lowest label on ties
BestTest(g) ==
    LET top == MaxOf({overlap(g, t) : t \in IDObjects})
    IN  MinOf({t \in IDObjects : overlap(g, t) = top})

\* The matcher's result is dom_ID, one entry per position, and the
\* intersect_matrix entry the position's true positives are read from.  An
\* object's position is its label less off: off = 0 is the convention of
\* the loops that fill intersect_matrix (lGT == ii), off = 1 numbers the
\* objects from position 0.
HasEntry(g, off) == (g - off) \in DOMAIN matching.dom_ID
Entry(g, off) == matching.dom_ID[g - off]
Matched(g, t, off) ==
    /\ HasEntry(g, off)
    /\ Entry(g, off) >= 0
    /\ Entry(g, off) = t - off
    /\ matching.intersect_matrix[<<g - off, Entry(g, off)>>] > 0

\* C15: every ground truth object that overlaps a test object is assigned
\* the test object of maximum overlap, the lowest test label on ties (under
\* one of the two position conventions).
C15_DominantTestObject ==
    ObjectsMeasured =>
        \E off \in {0, 1} :
            \A g \in GTObjects :
                Overlapped(g) =>
                    /\ HasEntry(g, off)
                    /\ Entry(g, off) >= 0
                    /\ Entry(g, off) + off = BestTest(g)

\* C16: every ground truth object has an entry in the matcher's result, and
\* the entry of an object that overlaps no test object is "unmatched" (-1).
C16_ZeroOverlapUnmatched ==
    ObjectsMeasured =>
        \E off \in {0, 1} :
            \A g \in GTObjects :
                /\ HasEntry(g, off)
                /\ (~Overlapped(g) => Entry(g, off) = -1)

\* C17: of the ground truth objects with the same dominant test object t
\* exactly one stays matched to t, the one of largest overlap with t (the
\* lowest label on ties); the others are matched to no test object.
C17_CollisionKeepsLargest ==
    ObjectsMeasured =>
        \E off \in {0, 1} :
            \A t \in IDObjects :
                LET colliding == {g \in GTObjects :
                                    Overlapped(g) /\ BestTest(g) = t}
                    top == MaxOf({overlap(g, t) : g \in colliding})
                    winner == MinOf({g \in colliding : overlap(g, t) = top})
                IN  Cardinality(colliding) >= 2 =>
                        /\ Matched(winner, t, off)
                        /\ \A g \in colliding \ {winner} :
                              \A t2 \in IDObjects : ~Matched(g, t2, off)

\* the true positive area read for position i: intersect_matrix[i][dom_ID[i]]
tp_at(i) ==
    matching.intersect_matrix[<<i, py_index(matching.dom_ID[i],
                                            matching.GT_obj)>>]

\* C18: after the collisions are resolved no two positions with a non-zero
\* true positive area have the same dom_ID: the surviving matches are
\* one-to-one.
C18_MatchingInjective ==
    ObjectsMeasured =>
        \A i, k \in DOMAIN matching.dom_ID :
            (i # k /\ tp_at(i) > 0 /\ tp_at(k) > 0)
                => matching.dom_ID[i] # matching.dom_ID[k]

\* measured: two positions had the same dom_ID; one kept its area and the
\* other one's was cleared
C18_Witness ==
    /\ ObjectsMeasured
    /\ \E i, k \in DOMAIN matching.dom_ID :
          /\ i # k
          /\ matching.dom_ID[i] = matching.dom_ID[k]
          /\ matching.dom_ID[i] >= 0
          /\ tp_at(i) > 0
          /\ tp_at(k) = 0

\* C19: with at least one ground truth object and one test object the
\* denominators TP+FP, GT_tot_area, precision+recall, FP+TN and FN+TP are
\* positive and the five ratios are numbers.
C19_DenominatorsPositive ==
    (pc = "done" /\ GTObjects # {} /\ IDObjects # {}) =>
        /\ matching.status = "ok"
        /\ measurements.status = "ok"
        /\ matching.TP + matching.FP > 0
        /\ matching.GT_tot_area > 0
        /\ matching.FP + matching.TN > 0
        /\ matching.FN + matching.TP > 0
        /\ IsFinite(measurements.Precision)
        /\ IsFinite(measurements.Recall)
        /\ FAdd(measurements.Precision, measurements.Recall)[1] > 0
        /\ IsFinite(measurements.Ffactor)
        /\ IsFinite(measurements.FalsePosRate)
        /\ IsFinite(measurements.FalseNegRate)

\* C20: when the five ratios of object mode are numbers each of them lies
\* in [0, 1]; the recall never exceeds 1.
C20_ObjectRatiosInUnit ==
    (/\ ObjectsMeasured
     /\ measurements.status = "ok"
     /\ IsFinite(measurements.Precision)
     /\ IsFinite(measurements.Recall)
     /\ IsFinite(measurements.Ffactor)
     /\ IsFinite(measurements.FalsePosRate)
     /\ IsFinite(measurements.FalseNegRate))
    => /\ InUnit(measurements.Precision)
       /\ InUnit(measurements.Recall)
       /\ InUnit(measurements.Ffactor)
       /\ InUnit(measurements.FalsePosRate)
       /\ InUnit(measurements.FalseNegRate)


\* the pixels of any object of a labeling
Foreground(rows) == {r[1] : r \in rows}

\* C21: the grid published as true positives marks the pixels that are
\* foreground in test and ground truth, false positives those foreground in
\* the test only, false negatives those foreground in the ground truth
\* only, true negatives those background in both (object mode).
C21_DisplayGridsLabelled ==
    ObjectsMeasured =>
        LET G == Foreground(objects_GT)
            T == Foreground(objects_ID)
            d == matching.display_data
        IN  /\ d.true_positives = G \cap T
            /\ d.false_positives = T \ G
            /\ d.false_negatives = G \ T
            /\ d.true_negatives = ObjPixels \ (G \cup T)


\* --------------------------------------- the caller's arrays after a call
\* a[~mask] = False: an assignment in place to the array a
clear_outside(a, mask) == a \cap mask

\* mutant: the false positives are computed in place in test_pixels
image_arrays_after_inplace(test, ground_truth, gm, hm, tm) ==
    [test_pixels |-> clear_outside(test \ ground_truth,
                                   image_mask(gm, hm, tm)),
     ground_truth_pixels |-> ground_truth,
     gt_mask |-> gm,
     test_mask |-> tm]

\* measure_image: test_pixels, ground_truth_pixels and the two masks are
\* the images' own arrays.  &, ~ and label() return new arrays, the
\* assignments [~mask] = False of lines 181-187 write to those, mask & test
\* mask is a new array, and compute_rand_index indexes with [mask] and
\* converts with astype, which copy.  The arrays of the caller:
image_arrays_after(test, ground_truth, gm, hm, tm) ==
    LET mask == image_mask(gm, hm, tm)
        arrays == [test_pixels |-> test,
                   ground_truth_pixels |-> ground_truth,
                   gt_mask |-> gm,
                   test_mask |-> tm,
                   false_positives |-> test \ ground_truth,
                   false_negatives |-> ground_truth \ test,
                   true_positives |-> test \cap ground_truth,
                   true_negatives |-> Pixels \ (test \cup ground_truth)]
        cleared == [arrays EXCEPT
                      !.false_positives = clear_outside(@, mask),
                      !.false_negatives = clear_outside(@, mask),
                      !.true_positives = clear_outside(@, mask),
                      !.true_negatives = clear_outside(@, mask)]
    IN  [test_pixels |-> cleared.test_pixels,
         ground_truth_pixels |-> cleared.ground_truth_pixels,
         gt_mask |-> cleared.gt_mask,
         test_mask |-> cleared.test_mask]

\* mutant: the background is cleared in the mask itself, not in a copy
object_arrays_after_nocopy(gt, id, mask) ==
    [objects_GT |-> gt,
     objects_ID |-> id,
     objects_mask |-> (mask \ {r[1] : r \in gt}) \ {r[1] : r \in id}]

\* measure_objects and compute_rand_index_ijv: the columns of the two ijv
\* arrays are read only; GT_pixels and ID_pixels are rebound to new arrays
\* (np.zeros) before they are written; gt_bkgd and test_bkgd are copies of
\* the mask (mask.copy()) and the assignments of lines 571 and 573 write to
\* the copies; vstack, column_stack and u[order, :] return new arrays.
object_arrays_after(gt, id, mask) ==
    LET arrays == [objects_GT |-> gt, objects_ID |-> id, objects_mask |-> mask,
                   gt_bkgd |-> mask, test_bkgd |-> mask]
        cleared == [arrays EXCEPT
                      !.gt_bkgd = @ \ {r[1] : r \in gt},
                      !.test_bkgd = @ \ {r[1] : r \in id}]
    IN  [objects_GT |-> cleared.objects_GT,
         objects_ID |-> cleared.objects_ID,
         objects_mask |-> cleared.objects_mask]

\* the rows of the two labelings of a repeated object comparison
FrameRows == MaxRows - 1

\* one image set, compared twice: binary images, or objects
InitFrame ==
    \/ /\ pc = "image"
       /\ NamesIdle
       /\ BatchIdle
       /\ ground_truth_pixels \in Masks
       /\ test_pixels \in Masks
       /\ gt_mask \in Masks
       /\ has_mask \in BOOLEAN
       /\ test_mask \in Masks
       /\ (~has_mask => test_mask = Pixels)
       /\ confusion = NoConfusion
       /\ measurements = NoMeasurements
       /\ RandIdle
       /\ IjvIdle
       /\ ObjIdle
    \/ /\ pc = "objects"
       /\ NamesIdle
       /\ BatchIdle
       /\ ImageIdle
       /\ RandIdle
       /\ IjvIdle
       /\ objects_GT \in SUBSET GTRows
       /\ objects_ID \in SUBSET IDRows
       /\ Cardinality(objects_GT) + Cardinality(objects_ID) <= FrameRows
       /\ objects_mask \in ObjMasks
       /\ matching = NoMatching

\* run() with obj_or_img = O_IMG, on the arrays as the previous call left
\* them; the images keep the arrays as this call leaves them
run_image_call(from, to) ==
    /\ pc = from
    /\ LET r == measure_image(test_pixels, ground_truth_pixels,
                              gt_mask, has_mask, test_mask)
           after == image_arrays_after(test_pixels, ground_truth_pixels,
                                       gt_mask, has_mask, test_mask)
       IN  /\ confusion' = r.confusion
           /\ measurements' = r.measurements
           /\ test_pixels' = after.test_pixels
           /\ ground_truth_pixels' = after.ground_truth_pixels
           /\ gt_mask' = after.gt_mask
           /\ test_mask' = after.test_mask
    /\ pc' = to
    /\ UNCHANGED <<has_mask, RandVars, IjvVars, ObjVars>>
    /\ UNCHANGED <<NameVars, BatchVars>>

\* run() with obj_or_img = O_OBJ, likewise
run_objects_call(from, to) ==
    /\ pc = from
    /\ LET r == measure_objects(objects_GT, objects_ID, objects_mask, NObjPix)
           after == object_arrays_after(objects_GT, objects_ID, objects_mask)
       IN  /\ matching' = r.matching
           /\ measurements' = r.measurements
           /\ objects_GT' = after.objects_GT
           /\ objects_ID' = after.objects_ID
           /\ objects_mask' = after.objects_mask
    /\ pc' = to
    /\ UNCHANGED <<ground_truth_pixels, test_pixels, gt_mask, has_mask,
                   test_mask, confusion, RandVars, IjvVars>>
    /\ UNCHANGED <<NameVars, BatchVars>>

NextFrame ==
    \/ run_image_call("image", "image_done")
    \/ run_image_call("image_done", "image_again")
    \/ run_objects_call("objects", "objects_done")
    \/ run_objects_call("objects_done", "objects_again")

SpecFrame == InitFrame /\ [][NextFrame]_vars

C22_WitnessImage ==
    /\ pc = "image_again"
    /\ measurements.status = "ok"
    /\ test_pixels \ image_mask(gt_mask, has_mask, test_mask) # {}

\* the labels a coordinate carries in a listing: those of its rows, or the
\* single label 0 if it has none
LabelsAt(ijv, p) ==
    LET ls == {ijv[k][2] : k \in {i \in DOMAIN ijv : ijv[i][1] = p}}
    IN  IF ls = {} THEN {0} ELSE ls

\* the unordered pairs of distinct coordinates of the mask
ValidPairs == {pq \in ijv_mask \X ijv_mask : pq[1] < pq[2]}

\* the pairs that share as many test labels as ground truth labels
AgreeingValidPairs ==
    {pq \in ValidPairs :
        Cardinality(LabelsAt(test_ijv, pq[1]) \cap LabelsAt(test_ijv, pq[2]))
        = Cardinality(LabelsAt(gt_ijv, pq[1]) \cap LabelsAt(gt_ijv, pq[2]))}

\* C23: for two listings whose coordinates all lie in the mask, and a mask
\* of at least two coordinates, the Rand index of compute_rand_index_ijv is
\* the fraction of the pairs of distinct valid coordinates that share as many
\* test labels as ground truth labels.
C23_RandIndexIjvIsPairFraction ==
    (/\ pc # "start"
     /\ AllInside(gt_ijv, ijv_mask)
     /\ AllInside(test_ijv, ijv_mask)
     /\ Cardinality(ijv_mask) >= 2) =>
        ijv_result[1] = Frac(Cardinality(AgreeingValidPairs),
                             Cardinality(ValidPairs))

\* overlapping ground truth labels, a valid coordinate without a test
\* label, and pairs that agree beside pairs that do not
C23_Witness ==
    /\ pc = "done"
    /\ AllInside(gt_ijv, ijv_mask)
    /\ AllInside(test_ijv, ijv_mask)
    /\ Cardinality(ijv_mask) >= 2
    /\ \E p \in ijv_mask : Cardinality(LabelsAt(gt_ijv, p)) >= 2
    /\ \E p \in ijv_mask : LabelsAt(test_ijv, p) = {0}
    /\ AgreeingValidPairs # {}
    /\ AgreeingValidPairs # ValidPairs

\* C24: the overlap table covers every object: for every ground truth label
\* g in 1..max and every test label t in 1..max, the table filled for the
\* matching holds at the position of (g, t) the number of coordinates that
\* carry both labels (under one of the two position conventions).
C24_OverlapTableCoversObjects ==
    ObjectsMeasured =>
        LET M == overlap_matrix(objects_GT, objects_ID,
                                matching.GT_obj, matching.ID_obj)
        IN  \E off \in {0, 1} :
                \A g \in 1 .. matching.GT_obj, t \in 1 .. matching.ID_obj :
                    /\ <<t - off, g - off>> \in DOMAIN M
                    /\ M[<<t - off, g - off>>] = overlap(g, t)

\* the overlap areas of the matched positions, each counted once
MatchedOverlap ==
    SumF([i \in DOMAIN matching.dom_ID |-> tp_at(i)], DOMAIN matching.dom_ID)

\* C25: the aggregate TP is the sum of the overlaps of the matched pairs,
\* each pair counted once, and the precision is TP / (TP + FP) of that sum.
C25_TruePositivesCountedOnce ==
    (ObjectsMeasured /\ measurements.status = "ok") =>
        /\ matching.TP = MatchedOverlap
        /\ measurements.Precision =
              NpDiv(Float(MatchedOverlap), Float(MatchedOverlap + matching.FP))

\* the area of all ground truth objects, labels 1 to the maximum
GroundTruthArea ==
    SumF([g \in 1 .. matching.GT_obj |->
            Cardinality(object_pixels(objects_GT, g))], 1 .. matching.GT_obj)

\* C26: GT_tot_area, the denominator of the recall, is the sum of the pixel
\* set sizes of all ground truth objects, labels 1 to the maximum label.
C26_RecallDenominatorIsTotalArea ==
    (ObjectsMeasured /\ measurements.status = "ok") =>
        /\ matching.GT_tot_area = GroundTruthArea
        /\ measurements.Recall =
              NpDiv(Float(matching.TP), Float(GroundTruthArea))

\* the false negative area read for position i: FN_area[i][dom_ID[i]]
fn_at(i) ==
    matching.FN_area[<<i, py_index(matching.dom_ID[i], matching.GT_obj)>>]

\* C27: a position left unmatched (dom_ID = -1) adds 0 to TP, 0 to FP and
\* the pixel count of its own object to FN: the object of that position in
\* one of the two labelings, under one of the two position conventions.
C27_UnmatchedCountsOwnArea ==
    ObjectsMeasured =>
        \E off \in {0, 1}, rows \in {objects_GT, objects_ID} :
            \A i \in DOMAIN matching.dom_ID :
                matching.dom_ID[i] = -1 =>
                    /\ tp_at(i) = 0
                    /\ fp_of_row(matching.intersect_matrix, i, -1,
                                 matching.GT_obj) = 0
                    /\ fn_at(i) = Cardinality(object_pixels(rows, i + off))

\* ------------------------------------------------- measurement names
\* A string is the sequence of its pieces: a piece of text without "_",
\* or the "_" itself.
C_IMAGE_OVERLAP == <<"Overlap">>

FTR_ALL == <<"Ffactor", "Precision", "Recall", "FalsePosRate",
             "FalseNegRate", "RandIndex", "AdjustedRandIndex">>

\* the image names a pipeline gives to the settings
ImageNames == {<<"A">>, <<"B">>, <<"A", "_", "B">>}

\* sep.join(parts)
RECURSIVE join(_, _)
join(sep, parts) ==
    IF parts = << >> THEN << >>
    ELSE IF Len(parts) = 1 THEN parts[1]
    ELSE parts[1] \o sep \o join(sep, Tail(parts))

\* '_'.join((C_IMAGE_OVERLAP, feature, image)) with the image of the mode
measurement_name(feature, choice, test, found_in_GT) ==
    IF choice = O_IMG
    THEN join(<<"_">>, <<C_IMAGE_OVERLAP, <<feature>>, test>>)
    ELSE join(<<"_">>, <<C_IMAGE_OVERLAP, <<feature>>, found_in_GT>>)

\* the column names of get_measurement_columns, in the order of FTR_ALL
get_measurement_columns(test) ==
    [i \in DOMAIN FTR_ALL |->
        join(<<"_">>, <<C_IMAGE_OVERLAP, <<FTR_ALL[i]>>, test>>)]

\* get_measurement_images for object_name = IMAGE, category = Overlap
get_measurement_images(measurement, test) ==
    IF \E i \in DOMAIN FTR_ALL : FTR_ALL[i] = measurement
    THEN <<test>>
    ELSE << >>

\* a module with any choice of mode and any image names
InitNames ==
    /\ pc = "start"
    /\ ImageIdle
    /\ RandIdle
    /\ IjvIdle
    /\ ObjIdle
    /\ BatchIdle
    /\ obj_or_img \in {O_IMG, O_OBJ}
    /\ test_img \in ImageNames
    /\ img_obj_found_in_GT \in ImageNames
    /\ recorded_names = << >>
    /\ declared_columns = << >>
    /\ measurement_images = NoImages

NameUnchanged ==
    UNCHANGED <<pc, ImageInputs, confusion, measurements, RandVars, IjvVars,
                ObjVars, BatchVars, obj_or_img, test_img, img_obj_found_in_GT>>

\* run(): the names of the seven add_image_measurement calls of
\* measure_image or of measure_objects
record_measurement_names ==
    /\ recorded_names = << >>
    /\ recorded_names' =
          [i \in DOMAIN FTR_ALL |->
              measurement_name(FTR_ALL[i], obj_or_img, test_img,
                               img_obj_found_in_GT)]
    /\ UNCHANGED <<declared_columns, measurement_images>>
    /\ NameUnchanged

\* the pipeline asks for the columns
call_get_measurement_columns ==
    /\ declared_columns = << >>
    /\ declared_columns' = get_measurement_columns(test_img)
    /\ UNCHANGED <<recorded_names, measurement_images>>
    /\ NameUnchanged

\* a later module asks for the images of a measurement
call_get_measurement_images(measurement) ==
    /\ measurement_images = NoImages
    /\ measurement_images' =
          [measurement |-> measurement,
           images |-> get_measurement_images(measurement, test_img)]
    /\ UNCHANGED <<recorded_names, declared_columns>>
    /\ NameUnchanged

NextNames ==
    \/ record_measurement_names
    \/ call_get_measurement_columns
    \/ \E measurement \in {FTR_ALL[i] : i \in DOMAIN FTR_ALL} \cup {"Other"} :
          call_get_measurement_images(measurement)

SpecNames == InitNames /\ [][NextNames]_vars

\* C28: in both modes and for each of the seven features, the name run()
\* records the value under is the column name get_measurement_columns()
\* declares, and get_measurement_images() reports the image whose name ends
\* that name.
C28_NamesAgree ==
    \A i \in DOMAIN FTR_ALL :
        /\ (recorded_names # << >> /\ declared_columns # << >>) =>
              recorded_names[i] = declared_columns[i]
        /\ (recorded_names # << >>
            /\ measurement_images.measurement = FTR_ALL[i]) =>
              /\ Len(measurement_images.images) = 1
              /\ recorded_names[i] =
                    C_IMAGE_OVERLAP \o <<"_", FTR_ALL[i], "_">>
                        \o measurement_images.images[1]

\* ------------------------------------- CreateBatchFiles: upgrade_settings
\* A setting value is a string, the sequence of its characters; a name in
\* quotes stands for a piece of text without commas or separators.
S_FIXED_COUNT == 8
S_PER_MAPPING == 2

\* CreateBatchFiles.variable_revision_number
CurrentRevision == 6

\* the revision from which Matlab settings are converted
MatlabRevision == 8

\* the mappings of a module, the characters of a Matlab pathname list
MaxMappings == 2
MaxPathnameLen == 2

NO == <<"No">>
YES == <<"Yes">>

\* s[:n] and s[n:]
take(s, n) == SubSeq(s, 1, IF n < Len(s) THEN n ELSE Len(s))
drop(s, n) == SubSeq(s, (IF n < Len(s) THEN n ELSE Len(s)) + 1, Len(s))

\* s.split(sep) for a separator of one character
RECURSIVE split(_, _)
split(s, sep) ==
    IF \A i \in DOMAIN s : s[i] # sep THEN <<s>>
    ELSE LET i == MinOf({j \in DOMAIN s : s[j] = sep})
         IN  <<take(s, i - 1)>> \o split(drop(s, i), sep)

\* for old_pathname, new_pathname in zip(...): setting_values += [...]
RECURSIVE zip_pathnames(_, _)
zip_pathnames(old_pathnames, new_pathnames) ==
    IF old_pathnames = << >> \/ new_pathnames = << >> THEN << >>
    ELSE <<Head(old_pathnames), Head(new_pathnames)>>
            \o zip_pathnames(Tail(old_pathnames), Tail(new_pathnames))

\* the state of upgrade_settings: its three variables, or an exception
Upgrading(values, revision, matlab) ==
    [status |-> "ok", setting_values |-> values,
     variable_revision_number |-> revision, from_matlab |-> matlab]

RaisedUpgrade(st) == [st EXCEPT !.status = "raised"]

\* if from_matlab and variable_revision_number < 8: the settings are not
\* converted
upgrade_old_matlab(st) ==
    IF st.from_matlab /\ st.variable_revision_number < MatlabRevision
    THEN Upgrading(<<NO, << >>, NO, NO, NO, << >>, <<"0">>, YES>>,
                   CurrentRevision, FALSE)
    ELSE st

\* if from_matlab and variable_revision_number == 8
upgrade_matlab(st) ==
    IF st.from_matlab /\ st.variable_revision_number = MatlabRevision
    THEN IF Len(st.setting_values) < 3
         THEN RaisedUpgrade(st)     \* setting_values[:3] cannot be unpacked
         ELSE
           LET batch_save_path == st.setting_values[1]
               old_pathnames == split(st.setting_values[2], ",")
               new_pathnames == split(st.setting_values[3], ",")
           IN  IF Len(old_pathnames) # Len(new_pathnames)
               THEN RaisedUpgrade(st)                         \* ValueError
               ELSE Upgrading(
                      (IF batch_save_path = <<".">>
                       THEN <<YES, <<"default_output_directory">> >>
                       ELSE <<NO, batch_save_path>>)
                        \o <<NO, NO, << >> >>
                        \o zip_pathnames(old_pathnames, new_pathnames),
                      1, FALSE)
    ELSE st

\* setting_values[:n] + [value] + setting_values[n:]
insert_setting(values, n, value) == take(values, n) \o <<value>> \o drop(values, n)

\* mutant: the pickled image set list stays among the settings
remove_pickled_image_set_list_kept(values) == values

\* setting_values[:4] + setting_values[5:]
remove_pickled_image_set_list(values) == take(values, 4) \o drop(values, 5)

\* if (not from_matlab) and variable_revision_number == revision, for the
\* revisions 1 to 5
upgrade_native(st, revision) ==
    IF (~st.from_matlab) /\ st.variable_revision_number = revision
    THEN LET values == st.setting_values
         IN  CASE revision = 1 ->
                    Upgrading(insert_setting(values, 5,
                                             <<"default_image_directory">>),
                              2, FALSE)
               [] revision = 2 ->
                    Upgrading(insert_setting(values, 6, <<"version_number">>),
                              3, FALSE)
               [] revision = 3 ->
                    IF Len(values) < 5
                    THEN RaisedUpgrade(st)      \* setting_values[4]
                    ELSE Upgrading(remove_pickled_image_set_list(values),
                                   4, FALSE)
               [] revision = 4 ->
                    Upgrading(insert_setting(values, 4, <<"False">>), 5, FALSE)
               [] revision = 5 ->
                    Upgrading(insert_setting(values, 7, <<"False">>),
                              CurrentRevision, FALSE)
    ELSE st

\* the if statements of upgrade_settings in their order
UpgradeBlocks == 1 .. 7

upgrade_settings_block(block, st) ==
    IF block = 1 THEN upgrade_old_matlab(st)
    ELSE IF block = 2 THEN upgrade_matlab(st)
    ELSE upgrade_native(st, block - 2)

\* prepare_settings: the number of mappings it leaves, -1 for ValueError
prepare_settings(values) ==
    IF (Len(values) - S_FIXED_COUNT) % S_PER_MAPPING # 0
    THEN -1
    ELSE (Len(values) - S_FIXED_COUNT) \div S_PER_MAPPING

\* add_mapping: both texts start as the default image directory
DefaultMapping == << <<"default_image_directory">>,
                     <<"default_image_directory">> >>

\* the settings a pipeline of a native revision holds before the mappings
settings_of_revision(revision) ==
    CASE revision = 1 ->
            <<YES, <<"dir">>, NO, NO, <<"pickled">> >>
      [] revision = 2 ->
            <<YES, <<"dir">>, NO, NO, <<"pickled">>, <<"images">> >>
      [] revision = 3 ->
            <<YES, <<"dir">>, NO, NO, <<"pickled">>, <<"images">>,
              <<"revision">> >>
      [] revision = 4 ->
            <<YES, <<"dir">>, NO, NO, <<"images">>, <<"revision">> >>
      [] revision = 5 ->
            <<YES, <<"dir">>, NO, NO, NO, <<"images">>, <<"revision">> >>
      [] revision = 6 ->
            <<YES, <<"dir">>, NO, NO, NO, <<"images">>, <<"revision">>, NO>>

\* k mappings as setting values
RECURSIVE mapping_settings(_)
mapping_settings(k) ==
    IF k = 0 THEN << >>
    ELSE mapping_settings(k - 1) \o << <<"local">>, <<"cluster">> >>

\* the comma separated pathname lists of a Matlab pipeline
Pathnames ==
    UNION {[1 .. n -> {"a", ","}] : n \in 0 .. MaxPathnameLen}

\* the settings a pipeline file can hold for the module
LoadedSettings ==
    {Upgrading(<<save, old, new>>, revision, TRUE) :
        save \in {<<".">>, <<"dir">>}, old \in Pathnames, new \in Pathnames,
        revision \in 1 .. (MatlabRevision + 1)}
    \cup
    {Upgrading(settings_of_revision(revision) \o mapping_settings(k),
               revision, FALSE) :
        revision \in 1 .. CurrentRevision, k \in 0 .. MaxMappings}

\* a module with some mappings, and settings to load
InitUpgrade ==
    /\ pc = "upgrading"
    /\ ImageIdle
    /\ RandIdle
    /\ IjvIdle
    /\ ObjIdle
    /\ NamesIdle
    /\ PathIdle
    /\ loaded \in LoadedSettings
    /\ setting_values = loaded.setting_values
    /\ variable_revision_number = loaded.variable_revision_number
    /\ from_matlab = loaded.from_matlab
    /\ upgrade_block = 1
    /\ \E n \in 0 .. MaxMappings : mappings = [i \in 1 .. n |-> DefaultMapping]

UpgradeUnchanged ==
    UNCHANGED <<ImageInputs, confusion, measurements, RandVars, IjvVars,
                ObjVars, NameVars, PathVars, loaded>>

\* the next if statement of upgrade_settings; after the last one the
\* function returns
upgrade_settings_step ==
    /\ pc = "upgrading"
    /\ upgrade_block \in UpgradeBlocks
    /\ LET st == upgrade_settings_block(
                    upgrade_block,
                    Upgrading(setting_values, variable_revision_number,
                              from_matlab))
       IN  /\ setting_values' = st.setting_values
           /\ variable_revision_number' = st.variable_revision_number
           /\ from_matlab' = st.from_matlab
           /\ pc' = IF st.status = "raised" THEN "raised"
                    ELSE IF upgrade_block = 7 THEN "upgraded"
                    ELSE "upgrading"
    /\ upgrade_block' = upgrade_block + 1
    /\ UNCHANGED mappings
    /\ UpgradeUnchanged

\* prepare_settings(setting_values) on the upgraded values: mappings are
\* deleted from the end or added until there are mapping_count of them
call_prepare_settings ==
    /\ pc = "upgraded"
    /\ LET mapping_count == prepare_settings(setting_values)
       IN  IF mapping_count < 0
           THEN pc' = "raised" /\ UNCHANGED mappings
           ELSE /\ pc' = "prepared"
                /\ mappings' = [i \in 1 .. mapping_count |->
                                  IF i <= Len(mappings) THEN mappings[i]
                                  ELSE DefaultMapping]
    /\ UNCHANGED <<setting_values, variable_revision_number, from_matlab,
                   upgrade_block>>
    /\ UpgradeUnchanged

NextUpgrade == upgrade_settings_step \/ call_prepare_settings

\* the loader calls upgrade_settings and prepare_settings and lets them run
SpecUpgrade ==
    InitUpgrade /\ [][NextUpgrade]_vars /\ WF_vars(NextUpgrade)

\* the number of mappings of the loaded settings: the local pathnames of
\* Matlab settings, the pairs after the fixed settings of native ones
LoadedMappings ==
    IF loaded.from_matlab
    THEN Len(split(loaded.setting_values[2], ","))
    ELSE (Len(loaded.setting_values)
            - Len(settings_of_revision(loaded.variable_revision_number)))
         \div S_PER_MAPPING

EqualPathnames ==
    Len(split(loaded.setting_values[2], ","))
        = Len(split(loaded.setting_values[3], ","))

\* the settings are of the current revision, with k mappings, and the
\* module has k mappings
UpgradedTo(k) ==
    /\ pc = "prepared"
    /\ variable_revision_number = CurrentRevision
    /\ from_matlab = FALSE
    /\ Len(setting_values) = S_FIXED_COUNT + S_PER_MAPPING * k
    /\ Len(mappings) = k

\* C29 as stated: from Matlab settings of revision <= 8 with k local and k
\* cluster pathnames, or native settings of revision 1..6 with k mappings,
\* the upgrade reaches revision 6, from_matlab = False and 8 + 2k setting
\* values, which prepare_settings turns into k mappings.
C29_UpgradeReachesCurrent ==
    (\/ /\ loaded.from_matlab
        /\ loaded.variable_revision_number <= MatlabRevision
        /\ EqualPathnames
     \/ ~loaded.from_matlab)
        ~> UpgradedTo(LoadedMappings)

\* C29, amended: Matlab settings of a revision below 8 are not converted:
\* they become the 8 default settings of revision 6 without a mapping,
\* whatever pathnames they held.  Matlab settings of revision 8 with k local
\* and k cluster pathnames and native settings of revision 1..6 with k
\* mappings reach revision 6 with 8 + 2k values and k mappings.
C29_UpgradeReachesCurrentOrDefaults ==
    /\ (loaded.from_matlab /\ loaded.variable_revision_number < MatlabRevision)
          ~> UpgradedTo(0)
    /\ (\/ /\ loaded.from_matlab
           /\ loaded.variable_revision_number = MatlabRevision
           /\ EqualPathnames
        \/ ~loaded.from_matlab)
          ~> UpgradedTo(LoadedMappings)

\* Matlab settings of revision 8 with two pathnames, upgraded and prepared
C29_Witness ==
    /\ pc = "prepared"
    /\ loaded.from_matlab
    /\ loaded.variable_revision_number = MatlabRevision
    /\ LoadedMappings = 2
    /\ Len(mappings) = 2

\* ------------------------------------------ CreateBatchFiles: alter_path
\* the characters of a path and its longest length
PathChars == {"a", "b", "/", "\\"}
MaxPathLen == 3

Paths == UNION {[1 .. n -> PathChars] : n \in 0 .. MaxPathLen}

\* the local and cluster root paths of the mappings
Roots == {<<"a">>, <<"b">>, <<"a", "/">>, <<"b", "\\">>}

\* path.startswith(prefix)
startswith(s, prefix) ==
    Len(prefix) <= Len(s) /\ SubSeq(s, 1, Len(prefix)) = prefix

\* path.replace(old, new) for single characters
replace(s, old, new) == [i \in DOMAIN s |-> IF s[i] = old THEN new ELSE s[i]]

\* for mapping in self.mappings, on a platform other than Windows: a path
\* that starts with the local directory gets the remote directory in its
\* place, and the loop goes on with the new path
RECURSIVE apply_mappings(_, _)
apply_mappings(p, maps) ==
    IF maps = << >> THEN p
    ELSE LET local_directory == Head(maps)[1]
             remote_directory == Head(maps)[2]
         IN  apply_mappings(
                 IF startswith(p, local_directory)
                 THEN remote_directory \o drop(p, Len(local_directory))
                 ELSE p,
                 Tail(maps))

\* alter_path(path) without regexp_substitution
alter_path(p, maps, windows) ==
    IF windows
    THEN replace(apply_mappings(p, maps), "/", "\\")
    ELSE replace(apply_mappings(p, maps), "\\", "/")

\* a module with up to MaxMappings mappings, and a path to alter
InitPath ==
    /\ pc = "start"
    /\ ImageIdle
    /\ RandIdle
    /\ IjvIdle
    /\ ObjIdle
    /\ NamesIdle
    /\ UpgradeIdle
    /\ \E n \in 0 .. MaxMappings : mappings \in [1 .. n -> Roots \X Roots]
    /\ remote_host_is_windows \in BOOLEAN
    /\ path \in Paths
    /\ altered_path = << >>

call_alter_path ==
    /\ pc = "start"
    /\ altered_path' = alter_path(path, mappings, remote_host_is_windows)
    /\ pc' = "altered"
    /\ UNCHANGED <<ImageInputs, confusion, measurements, RandVars, IjvVars,
                   ObjVars, NameVars, UpgradeVars, mappings,
                   remote_host_is_windows, path>>

NextPath == call_alter_path

SpecPath == InitPath /\ [][NextPath]_vars

\* the separators of the cluster in place of the others
ClusterSeparators(p) ==
    [i \in DOMAIN p |->
        IF p[i] \in {"/", "\\"}
        THEN (IF remote_host_is_windows THEN "\\" ELSE "/")
        ELSE p[i]]

\* C30: a leading local root is replaced by its cluster root exactly once:
\* a path that starts with the local root of some mapping becomes that
\* mapping's cluster root followed by the remainder, and no later mapping
\* rewrites it again; a path that matches no mapping keeps its text; in
\* the result every separator is that of the cluster.
C30_RewrittenOnce ==
    pc = "altered" =>
        LET matches == {i \in DOMAIN mappings :
                           startswith(path, mappings[i][1])}
        IN  IF matches = {}
            THEN altered_path = ClusterSeparators(path)
            ELSE \E i \in matches :
                    altered_path =
                        ClusterSeparators(
                            mappings[i][2] \o drop(path, Len(mappings[i][1])))
====
